---------------------------- MODULE Spec2Model ----------------------------
(***************************************************************************)
(* A model of the cxx/autocxx bridge generated for RE::Calendar and tm     *)
(* (src/src/sys/cxx/gen0.cxx, src/src/sys/include/autocxxgen_ffi.h).       *)
(*                                                                         *)
(* The state is the native heap as the bridge's entry points see it (one   *)
(* record per allocation: type, lifetime, how many times a destructor ran  *)
(* on it and how many times its storage was released), the caller's        *)
(* storage for std::unique_ptr / std::shared_ptr / std::weak_ptr handles,  *)
(* the control blocks of the shared handles, the contents of the           *)
(* std::vector<tm> objects, and the value the last call returned.          *)
(*                                                                         *)
(* Every extern "C" entry point is one action.  The entry points check     *)
(* nothing: what a caller owes a call is a Pre_ predicate, and a call made *)
(* outside it is carried out all the same and recorded in breach.  Each    *)
(* family of entry points has a specification of its own (SpecUnique,      *)
(* SpecShared, SpecVector, SpecLifecycle, SpecAlloc) over the same state.  *)
(***************************************************************************)
EXTENDS Integers, Sequences, FiniteSets, TLC

(***************************************************************************)
(* Bounds of the model.                                                    *)
(***************************************************************************)
\* the heap's capacity: operator new succeeds MaxObj times and throws
\* std::bad_alloc from then on (an address is never handed out twice, so
\* that a stale pointer is told from a new object)
MaxObj == 2
\* the longest std::vector<tm> the model grows
MaxLen == 3

(***************************************************************************)
(* Addresses and the values stored at them.                                *)
(***************************************************************************)
\* nullptr: the value of a default-constructed handle
NULL == 0
Heap == 1 .. MaxObj
\* the address RE::Calendar::GetSingleton() returns: native, process-wide
Singleton == MaxObj + 1
\* storage of the caller's own (a tm on its stack, handed over by pointer)
Stack == {Singleton + 1, Singleton + 2}
\* the caller's storage for a c_uint that a trampoline writes through return$
Out == {Singleton + 3}
Addr == Heap \cup {Singleton} \cup Stack \cup Out
\* the types that have unique_ptr<T> / shared_ptr<T> / weak_ptr<T> adapters
Types == {"Calendar", "tm"}
\* the values a tm can hold; "none" is storage without a value
TmVal == {"noon", "dusk"}
\* the texts a rust::Str holds
StrVal == {"", "dawn"}
\* the states of the host's Calendar: the date it stands at
CalState == {"Sundas 17 Last Seed 201", "Morndas 18 Last Seed 201",
             "Fredas 1 Morning Star 202"}
\* caller-side storage for std::unique_ptr<T> handles
USlot == {"u1", "u2"}

\* caller-side storage for std::shared_ptr<T> and std::weak_ptr<T> handles
SSlot == {"s1", "s2", "s3"}
WSlot == {"w1", "w2"}

VARIABLES
    obj,         \* Addr -> [type, st, dtors, frees, val, elems]: the native objects
    uptr,        \* USlot -> [life, ptr, via, rel, found]: std::unique_ptr<T> storage
    sptr,        \* SSlot -> [life, ptr]: storage of std::shared_ptr<T>
    wptr,        \* WSlot -> [life, ptr]: storage of std::weak_ptr<T>
    ctrl,        \* Heap -> [st, strong, weak, ...]: the control block of a referent
    known,       \* the pointers the entry points have returned to the caller
    loose,       \* the pointers the caller owns itself (alloc(), release())
    ret,         \* [kind, val, pos]: what the last call returned
    log,         \* Heap -> [pushed, pure]: what was pushed on a vector since new()
    trail,       \* the push_back that was the last call, if it was one
    breach,      \* the caller has made a call outside its documented preconditions
    oom,         \* an allocation has failed (operator new threw)
    terminated   \* std::terminate was called: the process is gone

vars ==
    <<obj, uptr, sptr, wptr, ctrl, known, loose, ret, log, trail, breach, oom,
      terminated>>

\* the state of the shared and weak handles; the record of the vector calls
shared_vars == <<sptr, wptr, ctrl>>
vector_vars == <<log, trail>>

(***************************************************************************)
(* Objects.  st is "unalloc" (the address was never handed out), "uninit"  *)
(* (storage, no constructor yet), "live", "destroyed" (destructor ran, the *)
(* storage is still held) or "freed" (storage released).  dtors and frees  *)
(* count the destructor calls and the deallocations of the object: 0, 1,   *)
(* or 2 for "more than once", of the object now or last at the address.    *)
(* elems is the contents of a std::vector<tm>.                             *)
(***************************************************************************)
Unallocated ==
    [type |-> "none", st |-> "unalloc", dtors |-> 0, frees |-> 0, val |-> "none",
     elems |-> <<>>]

\* one more of a thing counted as 0, 1, more than once
Count(n) == IF n < 2 THEN n + 1 ELSE n

\* mutant: new T() in place of new MaybeUninit<T>: the storage is constructed
operator_new_constructs(T) ==
    [type |-> T, st |-> "live", dtors |-> 0, frees |-> 0, val |-> "none",
     elems |-> <<>>]

\* what operator new(sizeof(T)) hands out: storage on which nothing has run
operator_new(T) ==
    [type |-> T, st |-> "uninit", dtors |-> 0, frees |-> 0, val |-> "none",
     elems |-> <<>>]

\* ::c_uint(n), n the c_uint a Calendar accessor returned: a copy, of the
\* same width, so the value is the same
c_uint(n) == n

\* a c_uint of the caller's that holds nothing yet; what its bits are is
\* never read
Uninit_c_uint ==
    [type |-> "c_uint", st |-> "uninit", dtors |-> 0, frees |-> 0, val |-> 0,
     elems |-> <<>>]

\* the address operator new returns next
Fresh == {a \in Heap : obj[a].st = "unalloc"}
NewAddr == CHOOSE a \in Fresh : \A b \in Fresh : a <= b

\* new (p) T(v): a constructor has run on the storage; an object's lifetime
\* begins
Constructed(o, v) == [o EXCEPT !.st = "live", !.val = v, !.dtors = 0]

\* ptr->~T(): the destructor runs; the storage stays as it is
destroy(o) ==
    [o EXCEPT !.dtors = Count(@),
              !.st = IF @ = "freed" THEN "freed" ELSE "destroyed"]

\* mutant: delete ptr in place of operator delete(ptr): the destructor runs
\* before the storage is released
delete_appropriately_destroys(o) ==
    [o EXCEPT !.dtors = Count(@), !.frees = Count(@), !.st = "freed",
              !.val = "none", !.elems = <<>>]

\* operator delete(ptr): the storage is released; no destructor runs
delete_appropriately(o) ==
    [o EXCEPT !.frees = Count(@), !.st = "freed", !.val = "none", !.elems = <<>>]

\* delete ptr (std::default_delete): the destructor, then operator delete
default_delete(o) == delete_appropriately(destroy(o))

\* a call is followed while the process is alive and the caller has kept to
\* the preconditions of the calls it made: the first call outside them is
\* carried out, and what the program does after it is not followed
Running == ~terminated /\ ~breach

Void == [kind |-> "void", val |-> 0, pos |-> 0]
RetPtr(p) == [kind |-> "ptr", val |-> p, pos |-> 0]

\* the last call was no push_back
NoCall == [op |-> "none", vec |-> 0, len |-> 0, back |-> "none", val |-> "none"]

\* mutant: the failure is handed back to the caller as a null pointer
returns_null ==
    /\ ret' = RetPtr(NULL)
    /\ UNCHANGED <<obj, uptr, known, loose, breach, terminated, shared_vars, vector_vars>>

\* an exception reaches the end of a function declared noexcept:
\* std::terminate.  Nothing is returned and nothing is written.
noexcept_terminate ==
    /\ terminated' = TRUE
    /\ UNCHANGED <<obj, uptr, known, loose, ret, breach, shared_vars, vector_vars>>

\* operator new throws std::bad_alloc inside an entry point
bad_alloc ==
    /\ Fresh = {}
    /\ oom' = TRUE
    /\ noexcept_terminate

(***************************************************************************)
(* std::unique_ptr<T> adapters.  A slot is "vacant" (storage that holds no *)
(* handle), "live", or "dead" (its destructor ran; the bits that remain    *)
(* are whatever the destructor left).  Two fields record the slot's past:  *)
(* via, the constructor that made the handle; rel, that release() was      *)
(* called on it since it was last constructed or dropped; found, what its  *)
(* latest drop() came upon: a handle that held an "object", one that was   *)
(* "null" from the start, one that had been "released", or a "dead" one.   *)
(***************************************************************************)
Vacant ==
    [life |-> "vacant", ptr |-> NULL, via |-> "none", rel |-> FALSE, found |-> "none"]
Holding(p, via) ==
    [life |-> "live", ptr |-> p, via |-> via, rel |-> FALSE, found |-> "none"]

\* a pointer of type T*: null, or the address of a T
PointsTo(T, p) == p = NULL \/ (p \in Addr /\ obj[p].type = T)

(***************************************************************************)
(* What the caller owes each call (spec 4.2, 7): raw() adopts a            *)
(* constructed object that the caller owns; a handle is used only while it *)
(* is alive; an object is constructed before it is destroyed; free() and   *)
(* the destructor wrapper get a pointer the caller owns.  A call outside   *)
(* these raises breach; the call is carried out all the same, and is the   *)
(* last one followed.                                                      *)
(***************************************************************************)
Pre_raw(p) == p = NULL \/ (p \in loose /\ obj[p].st = "live")
Pre_handle(h) == uptr[h].life = "live"
Pre_drop(h) ==
    /\ uptr[h].life = "live"
    /\ uptr[h].ptr # NULL => obj[uptr[h].ptr].st = "live"
Pre_free(p) == p = NULL \/ p \in loose
Pre_destructor(p) == p \in loose /\ obj[p].st = "live"

\* the record of the caller's conduct: ok is the call's precondition, owned
\* the pointers the caller owns after the call.  What the caller owns is
\* followed only as long as it has kept to the preconditions.
Monitor(ok, owned) ==
    /\ breach' = (breach \/ ~ok)
    /\ loose' = IF breach \/ ~ok THEN {} ELSE owned

\* ::new (ptr) std::unique_ptr<T>()
unique_ptr_null(T, h) ==
    /\ Running
    /\ uptr' = [uptr EXCEPT ![h] = Holding(NULL, "null")]
    /\ ret' = Void
    /\ UNCHANGED <<obj, known, loose, breach, oom, terminated>>
    /\ UNCHANGED <<shared_vars, vector_vars>>

\* new MaybeUninit<T>, then ::new (ptr) std::unique_ptr<T>(uninit)
unique_ptr_uninit(T, h) ==
    /\ Running
    /\ \/ /\ Fresh # {}
          /\ obj' = [obj EXCEPT ![NewAddr] = operator_new(T)]
          /\ uptr' = [uptr EXCEPT ![h] = Holding(NewAddr, "uninit")]
          /\ known' = known \cup {NewAddr}
          /\ ret' = RetPtr(NewAddr)
          /\ UNCHANGED <<loose, breach, oom, terminated>>
          /\ UNCHANGED <<shared_vars, vector_vars>>
       \/ bad_alloc

\* ::new (ptr) std::unique_ptr<T>(raw)
unique_ptr_raw(T, h, p) ==
    /\ Running
    /\ PointsTo(T, p)
    /\ uptr' = [uptr EXCEPT ![h] = Holding(p, "raw")]
    /\ Monitor(Pre_raw(p), loose \ {p})
    /\ ret' = Void
    /\ UNCHANGED <<obj, known, oom, terminated>>
    /\ UNCHANGED <<shared_vars, vector_vars>>

\* return ptr.get()
unique_ptr_get(T, h) ==
    /\ Running
    /\ uptr[h].life # "vacant"
    /\ PointsTo(T, uptr[h].ptr)
    /\ ret' = RetPtr(uptr[h].ptr)
    /\ Monitor(Pre_handle(h), loose)
    /\ UNCHANGED <<obj, uptr, known, oom, terminated>>
    /\ UNCHANGED <<shared_vars, vector_vars>>

\* mutant: release() that hands the pointer out and keeps it in the handle
unique_ptr_release_keeps(T, h) ==
    /\ Running
    /\ uptr[h].life # "vacant"
    /\ PointsTo(T, uptr[h].ptr)
    /\ ret' = RetPtr(uptr[h].ptr)
    /\ uptr' = [uptr EXCEPT ![h].rel = TRUE]
    /\ Monitor(Pre_handle(h), loose \cup ({uptr[h].ptr} \ {NULL}))
    /\ UNCHANGED <<obj, known, oom, terminated>>
    /\ UNCHANGED <<shared_vars, vector_vars>>

\* mutant: ptr.reset() in place of ptr.release(): the object is deleted
unique_ptr_release_resets(T, h) ==
    /\ Running
    /\ uptr[h].life # "vacant"
    /\ PointsTo(T, uptr[h].ptr)
    /\ ret' = RetPtr(uptr[h].ptr)
    /\ uptr' = [uptr EXCEPT ![h].ptr = NULL, ![h].rel = TRUE]
    /\ obj' = IF uptr[h].ptr = NULL THEN obj
              ELSE [obj EXCEPT ![uptr[h].ptr] = default_delete(@)]
    /\ Monitor(Pre_handle(h), loose \cup ({uptr[h].ptr} \ {NULL}))
    /\ UNCHANGED <<known, oom, terminated>>
    /\ UNCHANGED <<shared_vars, vector_vars>>

\* return ptr.release()
unique_ptr_release(T, h) ==
    /\ Running
    /\ uptr[h].life # "vacant"
    /\ PointsTo(T, uptr[h].ptr)
    /\ ret' = RetPtr(uptr[h].ptr)
    /\ uptr' = [uptr EXCEPT ![h].ptr = NULL, ![h].rel = TRUE]
    /\ Monitor(Pre_handle(h), loose \cup ({uptr[h].ptr} \ {NULL}))
    /\ UNCHANGED <<obj, known, oom, terminated>>
    /\ UNCHANGED <<shared_vars, vector_vars>>

\* ~unique_ptr(): delete the object if the stored pointer is not null.  The
\* handle's lifetime has ended; whether its storage still holds the pointer
\* or a null afterwards is the library's and the optimiser's choice (keep).
unique_ptr_dtor(h, keep) ==
    LET p == uptr[h].ptr IN
    /\ obj' = IF p = NULL THEN obj ELSE [obj EXCEPT ![p] = default_delete(@)]
    /\ uptr' = [uptr EXCEPT ![h] =
                    [life  |-> "dead",
                     ptr   |-> IF keep THEN p ELSE NULL,
                     via   |-> "none",
                     rel   |-> FALSE,
                     found |-> CASE uptr[h].life = "dead" -> "dead"
                                 [] p # NULL              -> "object"
                                 [] uptr[h].rel           -> "released"
                                 [] OTHER                 -> "null"]]

\* deleter_if<B>{}(ptr): ptr->~unique_ptr() when B, nothing otherwise
deleter_if(complete, h, keep) ==
    IF complete THEN unique_ptr_dtor(h, keep) ELSE UNCHANGED <<obj, uptr>>

\* mutant: the type is only forward-declared where the adapter is generated
is_complete_never(T) == FALSE

\* detail::is_complete<T>::value; the static_asserts require it of both types
is_complete(T) == T \in Types

\* deleter_if<is_complete<T>::value>{}(ptr)
unique_ptr_drop(T, h) ==
    /\ Running
    /\ uptr[h].life # "vacant"
    /\ PointsTo(T, uptr[h].ptr)
    /\ \E keep \in BOOLEAN : deleter_if(is_complete(T), h, keep)
    /\ Monitor(Pre_drop(h), loose)
    /\ ret' = Void
    /\ UNCHANGED <<known, oom, terminated>>
    /\ UNCHANGED <<shared_vars, vector_vars>>

(***************************************************************************)
(* The raw lifecycle entry points and the singleton accessor.              *)
(***************************************************************************)
\* new_appropriately<T>(): operator new(sizeof(T)), no constructor
autocxx_alloc(T) ==
    /\ Running
    /\ \/ /\ Fresh # {}
          /\ obj' = [obj EXCEPT ![NewAddr] = operator_new(T)]
          /\ known' = known \cup {NewAddr}
          /\ Monitor(TRUE, loose \cup {NewAddr})
          /\ ret' = RetPtr(NewAddr)
          /\ UNCHANGED <<uptr, oom, terminated>>
          /\ UNCHANGED <<shared_vars, vector_vars>>
       \/ bad_alloc

\* delete_appropriately<T>(arg0): operator delete(arg0), no destructor
autocxx_free(T, p) ==
    /\ Running
    /\ PointsTo(T, p)
    /\ obj' = IF p = NULL THEN obj
              ELSE [obj EXCEPT ![p] = delete_appropriately(@)]
    /\ Monitor(Pre_free(p), loose \ {p})
    /\ ret' = Void
    /\ UNCHANGED <<uptr, known, oom, terminated>>
    /\ UNCHANGED <<shared_vars, vector_vars>>

\* arg0->Calendar::~Calendar()
Calendar_synthetic_destructor(p) ==
    /\ Running
    /\ p # NULL
    /\ PointsTo("Calendar", p)
    /\ obj' = [obj EXCEPT ![p] = destroy(@)]
    /\ Monitor(Pre_destructor(p), loose)
    /\ ret' = Void
    /\ UNCHANGED <<uptr, known, oom, terminated>>
    /\ UNCHANGED <<shared_vars, vector_vars>>

\* the raw entry point that runs T's destructor on arg0: the bridge has one
\* for RE::Calendar and none for tm
synthetic_destructor(T, p) ==
    /\ T = "Calendar"
    /\ Calendar_synthetic_destructor(p)

\* RE::Calendar::GetSingleton(): the address of the host's Calendar
GetSingleton == Singleton

\* mutant: an accessor that makes a Calendar of its own on each call
RE_Calendar_GetSingleton_allocates ==
    /\ Running
    /\ Fresh # {}
    /\ obj' = [obj EXCEPT ![NewAddr] = Constructed(operator_new("Calendar"), "none")]
    /\ ret' = RetPtr(NewAddr)
    /\ known' = known \cup {NewAddr}
    /\ UNCHANGED <<uptr, loose, breach, oom, terminated>>
    /\ UNCHANGED <<shared_vars, vector_vars>>

\* return RE::Calendar::GetSingleton()
RE_Calendar_GetSingleton ==
    /\ Running
    /\ ret' = RetPtr(GetSingleton)
    /\ known' = known \cup {GetSingleton}
    /\ UNCHANGED <<obj, uptr, loose, breach, oom, terminated>>
    /\ UNCHANGED <<shared_vars, vector_vars>>

\* storage a constructor can be run on: allocated and not released
Storage(p) == p # NULL /\ obj[p].st \in {"uninit", "destroyed", "live"}

\* new (arg1) tm(autocxx_gen_this.GetTime()); t is what GetTime() returns
GetTime(cal, p, t) ==
    /\ Running
    /\ cal # NULL /\ PointsTo("Calendar", cal) /\ obj[cal].st = "live"
    /\ PointsTo("tm", p) /\ Storage(p)
    /\ obj' = [obj EXCEPT ![p] = Constructed(@, t)]
    /\ ret' = Void
    /\ UNCHANGED <<uptr, known, loose, breach, oom, terminated>>
    /\ UNCHANGED <<shared_vars, log>>
    /\ trail' = NoCall

\* new (autocxx_gen_this) tm(std::move(*other)); tm is trivially movable, so
\* the source keeps its value and stays live
tm_new_synthetic_move_ctor(p, other) ==
    /\ Running
    /\ PointsTo("tm", p) /\ Storage(p)
    /\ other # NULL /\ PointsTo("tm", other) /\ obj[other].st = "live"
    /\ obj' = [obj EXCEPT ![p] = Constructed(@, obj[other].val)]
    /\ ret' = Void
    /\ UNCHANGED <<uptr, known, loose, breach, oom, terminated>>
    /\ UNCHANGED <<shared_vars, log>>
    /\ trail' = NoCall

\* new (autocxx_gen_this) tm(other)
tm_new_synthetic_const_copy_ctor(p, other) ==
    /\ Running
    /\ PointsTo("tm", p) /\ Storage(p)
    /\ other # NULL /\ PointsTo("tm", other) /\ obj[other].st = "live"
    /\ obj' = [obj EXCEPT ![p] = Constructed(@, obj[other].val)]
    /\ ret' = Void
    /\ UNCHANGED <<uptr, known, loose, breach, oom, terminated>>
    /\ UNCHANGED <<shared_vars, log>>
    /\ trail' = NoCall

(***************************************************************************)
(* std::shared_ptr<T> and std::weak_ptr<T> adapters.  A handle is a pointer *)
(* to the referent and one to its control block; the model names a control *)
(* block by its referent (the adapters have no aliasing constructor), and  *)
(* keeps no address for it.  strong and weak count the handles of each     *)
(* kind; the referent is deleted when strong falls to zero, the control    *)
(* block when both have.  cloned, locked and missed record that a shared   *)
(* handle was copied, that lock() found the referent alive, and that it    *)
(* found it expired.  The caller hands a constructor storage that holds no *)
(* live handle, and the other calls a live handle.                         *)
(***************************************************************************)
NoHandle == [life |-> "vacant", ptr |-> NULL]
Handle(p) == [life |-> "live", ptr |-> p]
Dropped == [life |-> "dead", ptr |-> NULL]
NoCtrl ==
    [st |-> "none", strong |-> 0, weak |-> 0,
     cloned |-> FALSE, locked |-> FALSE, missed |-> FALSE]
NewCtrl == [NoCtrl EXCEPT !.st = "live", !.strong = 1]

\* the control block is released once no handle of either kind is left
Settle(c) ==
    [c EXCEPT !.st = IF c.strong = 0 /\ c.weak = 0 THEN "freed" ELSE c.st]

\* what is left of the heap for the control block once the object has its
\* storage
Room == IF Fresh = {} THEN {} ELSE Fresh \ {NewAddr}

\* ::new (ptr) std::shared_ptr<T>()
shared_ptr_null(T, s) ==
    /\ Running
    /\ sptr[s].life # "live"
    /\ sptr' = [sptr EXCEPT ![s] = Handle(NULL)]
    /\ ret' = Void
    /\ UNCHANGED <<obj, uptr, wptr, ctrl, known, loose, breach, oom, terminated>>
    /\ UNCHANGED vector_vars

\* new MaybeUninit<T>, then ::new (ptr) std::shared_ptr<T>(uninit): the
\* constructor allocates the control block, and deletes the object it was
\* given if that allocation throws
shared_ptr_uninit(T, s) ==
    /\ Running
    /\ sptr[s].life # "live"
    /\ \/ /\ Room # {}
          /\ obj' = [obj EXCEPT ![NewAddr] = operator_new(T)]
          /\ ctrl' = [ctrl EXCEPT ![NewAddr] = NewCtrl]
          /\ sptr' = [sptr EXCEPT ![s] = Handle(NewAddr)]
          /\ known' = known \cup {NewAddr}
          /\ ret' = RetPtr(NewAddr)
          /\ UNCHANGED <<uptr, wptr, loose, breach, oom, terminated>>
          /\ UNCHANGED vector_vars
       \/ /\ Room = {}
          /\ obj' = IF Fresh = {} THEN obj
                    ELSE [obj EXCEPT ![NewAddr] = default_delete(operator_new(T))]
          /\ oom' = TRUE
          /\ terminated' = TRUE
          /\ UNCHANGED <<uptr, known, loose, ret, breach, shared_vars, vector_vars>>

\* ::new (ptr) std::shared_ptr<T>(self)
shared_ptr_clone(T, self, s) ==
    /\ Running
    /\ sptr[self].life = "live" /\ sptr[s].life # "live"
    /\ PointsTo(T, sptr[self].ptr)
    /\ sptr' = [sptr EXCEPT ![s] = Handle(sptr[self].ptr)]
    /\ ctrl' = IF sptr[self].ptr = NULL THEN ctrl
               ELSE [ctrl EXCEPT ![sptr[self].ptr].strong = @ + 1,
                                 ![sptr[self].ptr].cloned = TRUE]
    /\ ret' = Void
    /\ UNCHANGED <<obj, uptr, wptr, known, loose, breach, oom, terminated>>
    /\ UNCHANGED vector_vars

\* return self.get()
shared_ptr_get(T, self) ==
    /\ Running
    /\ sptr[self].life = "live"
    /\ PointsTo(T, sptr[self].ptr)
    /\ ret' = RetPtr(sptr[self].ptr)
    /\ UNCHANGED <<obj, uptr, known, loose, breach, oom, terminated>>
    /\ UNCHANGED <<shared_vars, vector_vars>>

\* mutant: a destructor that deletes the referent whatever the count
shared_ptr_dtor_eager(p) ==
    /\ obj' = [obj EXCEPT ![p] = default_delete(@)]
    /\ ctrl' = [ctrl EXCEPT ![p] = Settle([@ EXCEPT !.strong = @ - 1])]

\* mutant: one count for owners and observers: the referent is kept until
\* the last handle of either kind is gone
shared_ptr_dtor_waits(p) ==
    /\ obj' = IF ctrl[p].strong = 1 /\ ctrl[p].weak = 0
              THEN [obj EXCEPT ![p] = default_delete(@)]
              ELSE obj
    /\ ctrl' = [ctrl EXCEPT ![p] = Settle([@ EXCEPT !.strong = @ - 1])]

\* ~shared_ptr() of a handle to p: one owner less; the last one deletes the
\* referent
shared_ptr_dtor(p) ==
    /\ obj' = IF ctrl[p].strong = 1 THEN [obj EXCEPT ![p] = default_delete(@)]
              ELSE obj
    /\ ctrl' = [ctrl EXCEPT ![p] = Settle([@ EXCEPT !.strong = @ - 1])]

\* the last owner's drop destroys the referent, which is then to be an object
Pre_shared_drop(s) ==
    \/ sptr[s].ptr = NULL
    \/ ctrl[sptr[s].ptr].strong > 1
    \/ obj[sptr[s].ptr].st = "live"

\* self->~shared_ptr()
shared_ptr_drop(T, s) ==
    /\ Running
    /\ sptr[s].life = "live"
    /\ PointsTo(T, sptr[s].ptr)
    /\ IF sptr[s].ptr = NULL THEN UNCHANGED <<obj, ctrl>>
       ELSE shared_ptr_dtor(sptr[s].ptr)
    /\ sptr' = [sptr EXCEPT ![s] = Dropped]
    /\ Monitor(Pre_shared_drop(s), loose)
    /\ ret' = Void
    /\ UNCHANGED <<uptr, wptr, known, oom, terminated>>
    /\ UNCHANGED vector_vars

\* ::new (ptr) std::weak_ptr<T>()
weak_ptr_null(T, w) ==
    /\ Running
    /\ wptr[w].life # "live"
    /\ wptr' = [wptr EXCEPT ![w] = Handle(NULL)]
    /\ ret' = Void
    /\ UNCHANGED <<obj, uptr, sptr, ctrl, known, loose, breach, oom, terminated>>
    /\ UNCHANGED vector_vars

\* ::new (ptr) std::weak_ptr<T>(self)
weak_ptr_clone(T, self, w) ==
    /\ Running
    /\ wptr[self].life = "live" /\ wptr[w].life # "live"
    /\ PointsTo(T, wptr[self].ptr)
    /\ wptr' = [wptr EXCEPT ![w] = Handle(wptr[self].ptr)]
    /\ ctrl' = IF wptr[self].ptr = NULL THEN ctrl
               ELSE [ctrl EXCEPT ![wptr[self].ptr].weak = @ + 1]
    /\ ret' = Void
    /\ UNCHANGED <<obj, uptr, sptr, known, loose, breach, oom, terminated>>
    /\ UNCHANGED vector_vars

\* ::new (weak) std::weak_ptr<T>(shared)
weak_ptr_downgrade(T, shared, w) ==
    /\ Running
    /\ sptr[shared].life = "live" /\ wptr[w].life # "live"
    /\ PointsTo(T, sptr[shared].ptr)
    /\ wptr' = [wptr EXCEPT ![w] = Handle(sptr[shared].ptr)]
    /\ ctrl' = IF sptr[shared].ptr = NULL THEN ctrl
               ELSE [ctrl EXCEPT ![sptr[shared].ptr].weak = @ + 1]
    /\ ret' = Void
    /\ UNCHANGED <<obj, uptr, sptr, known, loose, breach, oom, terminated>>
    /\ UNCHANGED vector_vars

\* mutant: lock() that does not look at the owner count
expired_never(p) == p = NULL

\* weak.expired(): no control block, or no owner left
expired(p) == p = NULL \/ ctrl[p].strong = 0

\* ::new (shared) std::shared_ptr<T>(weak.lock()): a copy of the owners'
\* handle, or an empty handle when the referent has expired
weak_ptr_upgrade(T, weak, s) ==
    /\ Running
    /\ wptr[weak].life = "live" /\ sptr[s].life # "live"
    /\ PointsTo(T, wptr[weak].ptr)
    /\ LET p == wptr[weak].ptr IN
       IF expired(p)
       THEN /\ sptr' = [sptr EXCEPT ![s] = Handle(NULL)]
            /\ ctrl' = IF p = NULL THEN ctrl ELSE [ctrl EXCEPT ![p].missed = TRUE]
       ELSE /\ sptr' = [sptr EXCEPT ![s] = Handle(p)]
            /\ ctrl' = [ctrl EXCEPT ![p].strong = @ + 1, ![p].locked = TRUE]
    /\ ret' = Void
    /\ UNCHANGED <<obj, uptr, wptr, known, loose, breach, oom, terminated>>
    /\ UNCHANGED vector_vars

\* self->~weak_ptr()
weak_ptr_drop(T, w) ==
    /\ Running
    /\ wptr[w].life = "live"
    /\ PointsTo(T, wptr[w].ptr)
    /\ ctrl' = IF wptr[w].ptr = NULL THEN ctrl
               ELSE [ctrl EXCEPT ![wptr[w].ptr] = Settle([@ EXCEPT !.weak = @ - 1])]
    /\ wptr' = [wptr EXCEPT ![w] = Dropped]
    /\ ret' = Void
    /\ UNCHANGED <<obj, uptr, sptr, known, loose, breach, oom, terminated>>
    /\ UNCHANGED vector_vars

(***************************************************************************)
(* The shared and weak adapters called from two threads.  The threads      *)
(* share nothing but the control block, so a call is followed at its       *)
(* accesses to the counts, each of them one atomic operation: drop() is    *)
(* the decrement of the owner count, and then, in the thread whose         *)
(* decrement took the count to zero, the deletion of the referent;         *)
(* upgrade() is lock(): a load of the owner count, and then a              *)
(* compare-and-exchange that adds an owner if the count is still the one   *)
(* loaded and not zero, and loads again if it is not; clone() is one       *)
(* increment.  A call in flight is recorded in the handle it is made on:   *)
(* "releasing" (last: this decrement took the count to zero) and           *)
(* "locking" (seen: the count the load found).  Each thread makes one call *)
(* at a time, and no handle is used by two calls at once.                  *)
(***************************************************************************)
Threads == {"t1", "t2"}
Releasing(p, last) == [life |-> "releasing", ptr |-> p, last |-> last]
Locking(p, seen) == [life |-> "locking", ptr |-> p, seen |-> seen]
\* the handles a call is in flight on; a thread is free to start a call
InFlight == {s \in SSlot : sptr[s].life \in {"releasing", "locking"}}
ThreadFree == Cardinality(InFlight) < Cardinality(Threads)
\* storage that holds no handle and is used by no call
Idle(s) == sptr[s].life \in {"vacant", "dead"}

\* self->~shared_ptr(), first part: the owner count is decremented, and the
\* value it had tells the thread whether it was the last owner
shared_ptr_drop_release(T, s) ==
    /\ Running
    /\ ThreadFree
    /\ sptr[s].life = "live"
    /\ PointsTo(T, sptr[s].ptr)
    /\ LET p == sptr[s].ptr IN
       IF p = NULL
       THEN /\ sptr' = [sptr EXCEPT ![s] = Dropped]
            /\ UNCHANGED ctrl
       ELSE /\ sptr' = [sptr EXCEPT ![s] = Releasing(p, ctrl[p].strong = 1)]
            /\ ctrl' = [ctrl EXCEPT ![p].strong = @ - 1]
    /\ ret' = Void
    /\ UNCHANGED <<obj, uptr, wptr, known, loose, breach, oom, terminated>>
    /\ UNCHANGED vector_vars

\* mutant: the thread reads the owner count again to learn whether the
\* referent is to be deleted
shared_ptr_drop_dispose_rereads(T, s) ==
    /\ Running
    /\ sptr[s].life = "releasing"
    /\ PointsTo(T, sptr[s].ptr)
    /\ LET p == sptr[s].ptr IN
       /\ obj' = IF ctrl[p].strong = 0 THEN [obj EXCEPT ![p] = default_delete(@)]
                 ELSE obj
       /\ ctrl' = [ctrl EXCEPT ![p] = Settle(@)]
       /\ Monitor(ctrl[p].strong = 0 => obj[p].st = "live", loose)
    /\ sptr' = [sptr EXCEPT ![s] = Dropped]
    /\ ret' = Void
    /\ UNCHANGED <<uptr, wptr, known, oom, terminated>>
    /\ UNCHANGED vector_vars

\* self->~shared_ptr(), second part: the thread that was the last owner
\* deletes the referent, which is then to be an object
shared_ptr_drop_dispose(T, s) ==
    /\ Running
    /\ sptr[s].life = "releasing"
    /\ PointsTo(T, sptr[s].ptr)
    /\ LET p == sptr[s].ptr IN
       /\ obj' = IF sptr[s].last THEN [obj EXCEPT ![p] = default_delete(@)]
                 ELSE obj
       /\ ctrl' = [ctrl EXCEPT ![p] = Settle(@)]
       /\ Monitor(sptr[s].last => obj[p].st = "live", loose)
    /\ sptr' = [sptr EXCEPT ![s] = Dropped]
    /\ ret' = Void
    /\ UNCHANGED <<uptr, wptr, known, oom, terminated>>
    /\ UNCHANGED vector_vars

\* weak.lock(), first part: the owner count is loaded
weak_ptr_upgrade_load(T, weak, s) ==
    /\ Running
    /\ ThreadFree
    /\ wptr[weak].life = "live" /\ Idle(s)
    /\ PointsTo(T, wptr[weak].ptr)
    /\ LET p == wptr[weak].ptr IN
       sptr' = [sptr EXCEPT ![s] =
                    IF p = NULL THEN Handle(NULL) ELSE Locking(p, ctrl[p].strong)]
    /\ ret' = Void
    /\ UNCHANGED <<obj, uptr, wptr, ctrl, known, loose, breach, oom, terminated>>
    /\ UNCHANGED vector_vars

\* mutant: the count is incremented if the load found it non-zero, whatever
\* it is by now
weak_ptr_upgrade_cas_blind(T, s) ==
    /\ Running
    /\ sptr[s].life = "locking"
    /\ PointsTo(T, sptr[s].ptr)
    /\ LET p == sptr[s].ptr IN
       IF sptr[s].seen = 0
       THEN /\ sptr' = [sptr EXCEPT ![s] = Handle(NULL)]
            /\ ctrl' = [ctrl EXCEPT ![p].missed = TRUE]
       ELSE /\ sptr' = [sptr EXCEPT ![s] = Handle(p)]
            /\ ctrl' = [ctrl EXCEPT ![p].strong = @ + 1, ![p].locked = TRUE]
    /\ ret' = Void
    /\ UNCHANGED <<obj, uptr, wptr, known, loose, breach, oom, terminated>>
    /\ UNCHANGED vector_vars

\* weak.lock(), second part, and ::new (shared) std::shared_ptr<T>(...): the
\* empty handle if the count loaded was zero; one more owner and a handle
\* on the referent if the count is still the one loaded; the load again if
\* it is not
weak_ptr_upgrade_cas(T, s) ==
    /\ Running
    /\ sptr[s].life = "locking"
    /\ PointsTo(T, sptr[s].ptr)
    /\ LET p == sptr[s].ptr IN
       CASE sptr[s].seen = 0 ->
                /\ sptr' = [sptr EXCEPT ![s] = Handle(NULL)]
                /\ ctrl' = [ctrl EXCEPT ![p].missed = TRUE]
         [] sptr[s].seen # 0 /\ ctrl[p].strong = sptr[s].seen ->
                /\ sptr' = [sptr EXCEPT ![s] = Handle(p)]
                /\ ctrl' = [ctrl EXCEPT ![p].strong = @ + 1, ![p].locked = TRUE]
         [] OTHER ->
                /\ sptr' = [sptr EXCEPT ![s] = Locking(p, ctrl[p].strong)]
                /\ UNCHANGED ctrl
    /\ ret' = Void
    /\ UNCHANGED <<obj, uptr, wptr, known, loose, breach, oom, terminated>>
    /\ UNCHANGED vector_vars

(***************************************************************************)
(* std::vector<tm> adapters.  A vector is an object of the heap whose      *)
(* elems are its elements; an element is referred to by the vector and its *)
(* index.  Whether a push_back has to allocate is the library's growth     *)
(* policy (grow), except on an empty new vector, which has no storage; the *)
(* element storage takes no address of the model's.  The caller gives      *)
(* get_unchecked an index below size(), pop_back a non-empty vector and    *)
(* push_back a constructed tm.                                             *)
(***************************************************************************)
IsVector(v) == v \in Heap /\ obj[v].type = "vector" /\ obj[v].st = "live"
RetSize(n) == [kind |-> "size", val |-> n, pos |-> 0]
RetElem(v, pos) == [kind |-> "elem", val |-> v, pos |-> pos]
Back(q) == IF q = <<>> THEN "none" ELSE q[Len(q)]

\* return new std::vector<tm>()
vector_new ==
    /\ Running
    /\ \/ /\ Fresh # {}
          /\ obj' = [obj EXCEPT ![NewAddr] =
                        [operator_new("vector") EXCEPT !.st = "live"]]
          /\ log' = [log EXCEPT ![NewAddr] = [pushed |-> <<>>, pure |-> TRUE]]
          /\ known' = known \cup {NewAddr}
          /\ Monitor(TRUE, loose \cup {NewAddr})
          /\ ret' = RetPtr(NewAddr)
          /\ trail' = NoCall
          /\ UNCHANGED <<uptr, shared_vars, oom, terminated>>
       \/ bad_alloc

\* return s.size()
vector_size(v) ==
    /\ Running
    /\ IsVector(v)
    /\ ret' = RetSize(Len(obj[v].elems))
    /\ trail' = NoCall
    /\ UNCHANGED <<obj, uptr, shared_vars, known, loose, log, breach, oom, terminated>>

\* return &(*s)[pos]
vector_get_unchecked(v, pos) ==
    /\ Running
    /\ IsVector(v)
    /\ pos < Len(obj[v].elems)
    /\ ret' = RetElem(v, pos)
    /\ trail' = NoCall
    /\ UNCHANGED <<obj, uptr, shared_vars, known, loose, log, breach, oom, terminated>>

\* mutant: the element goes in at the front
push_front(q, t) == <<t>> \o q

\* std::vector<tm>::push_back(tm &&): the element goes in at the end
push_back(q, t) == Append(q, t)

\* mutant: the element is copied in and the caller's slot left as it is
vector_push_back_copies(v, value) ==
    /\ Running
    /\ IsVector(v)
    /\ Len(obj[v].elems) < MaxLen
    /\ value # NULL /\ PointsTo("tm", value) /\ obj[value].st = "live"
    /\ \E grow \in BOOLEAN :
          /\ obj[v].elems = <<>> => grow
          /\ \/ /\ grow => Fresh # {}
                /\ obj' = [obj EXCEPT ![v].elems = push_back(@, obj[value].val)]
                /\ log' = [log EXCEPT ![v].pushed =
                              IF log[v].pure THEN Append(@, obj[value].val) ELSE @]
                /\ trail' = [op |-> "push_back", vec |-> v,
                             len |-> Len(obj[v].elems), back |-> Back(obj[v].elems),
                             val |-> obj[value].val]
                /\ ret' = Void
                /\ UNCHANGED <<uptr, shared_vars, known, loose, breach, oom, terminated>>
             \/ /\ grow
                /\ bad_alloc

\* v->push_back(std::move(*value)); rust::destroy(value)
vector_push_back(v, value) ==
    /\ Running
    /\ IsVector(v)
    /\ Len(obj[v].elems) < MaxLen
    /\ value # NULL /\ PointsTo("tm", value) /\ obj[value].st = "live"
    /\ \E grow \in BOOLEAN :
          /\ obj[v].elems = <<>> => grow
          /\ \/ /\ grow => Fresh # {}
                /\ obj' = [obj EXCEPT ![v].elems = push_back(@, obj[value].val),
                                      ![value] = destroy(@)]
                /\ log' = [log EXCEPT ![v].pushed =
                              IF log[v].pure THEN Append(@, obj[value].val) ELSE @]
                /\ trail' = [op |-> "push_back", vec |-> v,
                             len |-> Len(obj[v].elems), back |-> Back(obj[v].elems),
                             val |-> obj[value].val]
                /\ ret' = Void
                /\ UNCHANGED <<uptr, shared_vars, known, loose, breach, oom, terminated>>
             \/ /\ grow
                /\ bad_alloc

\* mutant: v->pop_back() before the element is moved out
pop_back_early(q) == Back(SubSeq(q, 1, Len(q) - 1))

\* std::move(v->back()): the element pop_back hands out
back(q) == Back(q)

\* mutant: the element handed out is the last, the one removed the first
vector_pop_back_front(v, out) ==
    /\ Running
    /\ IsVector(v)
    /\ obj[v].elems # <<>>
    /\ PointsTo("tm", out) /\ Storage(out)
    /\ obj' = [obj EXCEPT ![out] = Constructed(@, back(obj[v].elems)),
                          ![v].elems = Tail(@)]
    /\ log' = [log EXCEPT ![v] = [pushed |-> <<>>, pure |-> FALSE]]
    /\ trail' = IF trail.op = "push_back" /\ trail.vec = v
                THEN [trail EXCEPT !.op = "popped"] ELSE NoCall
    /\ ret' = Void
    /\ UNCHANGED <<uptr, shared_vars, known, loose, breach, oom, terminated>>

\* ::new (out) tm(std::move(v->back())); v->pop_back()
vector_pop_back(v, out) ==
    /\ Running
    /\ IsVector(v)
    /\ obj[v].elems # <<>>
    /\ PointsTo("tm", out) /\ Storage(out)
    /\ obj' = [obj EXCEPT ![out] = Constructed(@, back(obj[v].elems)),
                          ![v].elems = SubSeq(@, 1, Len(@) - 1)]
    /\ log' = [log EXCEPT ![v] = [pushed |-> <<>>, pure |-> FALSE]]
    /\ trail' = IF trail.op = "push_back" /\ trail.vec = v
                THEN [trail EXCEPT !.op = "popped"] ELSE NoCall
    /\ ret' = Void
    /\ UNCHANGED <<uptr, shared_vars, known, loose, breach, oom, terminated>>

(***************************************************************************)
(* The trampolines that return a std::string: the string is made on the    *)
(* heap by std::make_unique and handed to the caller by release().         *)
(***************************************************************************)
\* mutant: .get() in place of .release(): the temporary unique_ptr deletes
\* the string as the trampoline returns
make_unique_string_get(text) ==
    /\ Running
    /\ \/ /\ Fresh # {}
          /\ obj' = [obj EXCEPT ![NewAddr] =
                        default_delete(Constructed(operator_new("string"), text))]
          /\ known' = known \cup {NewAddr}
          /\ Monitor(TRUE, loose \cup {NewAddr})
          /\ ret' = RetPtr(NewAddr)
          /\ trail' = NoCall
          /\ UNCHANGED <<uptr, shared_vars, log, oom, terminated>>
       \/ bad_alloc

\* std::make_unique<std::string>(text).release()
make_unique_string(text) ==
    /\ Running
    /\ \/ /\ Fresh # {}
          /\ obj' = [obj EXCEPT ![NewAddr] = Constructed(operator_new("string"), text)]
          /\ known' = known \cup {NewAddr}
          /\ Monitor(TRUE, loose \cup {NewAddr})
          /\ ret' = RetPtr(NewAddr)
          /\ trail' = NoCall
          /\ UNCHANGED <<uptr, shared_vars, log, oom, terminated>>
       \/ bad_alloc

\* return autocxx_make_string(str_).release()
autocxx_make_string(str) == make_unique_string(str)

\* return GetDayName_autocxx_wrapper(autocxx_gen_this).release(); name is
\* what GetDayName() returns
GetDayName(cal, name) ==
    /\ cal # NULL /\ PointsTo("Calendar", cal) /\ obj[cal].st = "live"
    /\ make_unique_string(name)

\* return GetMonthName_autocxx_wrapper(autocxx_gen_this).release(); name is
\* what GetMonthName() returns
GetMonthName(cal, name) ==
    /\ cal # NULL /\ PointsTo("Calendar", cal) /\ obj[cal].st = "live"
    /\ make_unique_string(name)

(***************************************************************************)
(* The host's Calendar.  What RE::Calendar computes is the host's affair;  *)
(* the operations below stand for it on the three dates of CalState, and   *)
(* the host moves the singleton from one date to another as game time      *)
(* passes.  The trampolines that return a c_uint construct it in the       *)
(* caller's storage.                                                       *)
(***************************************************************************)
\* RE::Calendar::GetDayOfWeek() const
Calendar_GetDayOfWeek(c) ==
    CASE c = "Sundas 17 Last Seed 201"   -> 0
      [] c = "Morndas 18 Last Seed 201"  -> 1
      [] c = "Fredas 1 Morning Star 202" -> 5
      [] OTHER                           -> 0

\* RE::Calendar::GetMonth() const
Calendar_GetMonth(c) ==
    CASE c = "Sundas 17 Last Seed 201"   -> 7
      [] c = "Morndas 18 Last Seed 201"  -> 7
      [] c = "Fredas 1 Morning Star 202" -> 0
      [] OTHER                           -> 0

\* RE::Calendar::GetYear() const
Calendar_GetYear(c) ==
    CASE c = "Sundas 17 Last Seed 201"   -> 201
      [] c = "Morndas 18 Last Seed 201"  -> 201
      [] c = "Fredas 1 Morning Star 202" -> 202
      [] OTHER                           -> 0

\* RE::Calendar::GetDayName() const
Calendar_GetDayName(c) ==
    CASE c = "Sundas 17 Last Seed 201"   -> "Sundas"
      [] c = "Morndas 18 Last Seed 201"  -> "Morndas"
      [] c = "Fredas 1 Morning Star 202" -> "Fredas"
      [] OTHER                           -> ""

\* RE::Calendar::GetMonthName() const
Calendar_GetMonthName(c) ==
    CASE c = "Sundas 17 Last Seed 201"   -> "Last Seed"
      [] c = "Morndas 18 Last Seed 201"  -> "Last Seed"
      [] c = "Fredas 1 Morning Star 202" -> "Morning Star"
      [] OTHER                           -> ""

\* the host application moves its Calendar on to another date
Host_Update(c) ==
    /\ Running
    /\ obj[Singleton].st = "live" /\ obj[Singleton].val # c
    /\ obj' = [obj EXCEPT ![Singleton].val = c]
    /\ UNCHANGED <<uptr, known, loose, ret, breach, oom, terminated>>
    /\ UNCHANGED <<shared_vars, vector_vars>>

\* new (return$) ::c_uint(value): the c_uint is constructed in the caller's
\* storage, whatever that held
placement_c_uint(return_, value) ==
    /\ Running
    /\ return_ # NULL /\ PointsTo("c_uint", return_) /\ Storage(return_)
    /\ obj' = [obj EXCEPT ![return_] = Constructed(@, c_uint(value))]
    /\ ret' = Void
    /\ trail' = NoCall
    /\ UNCHANGED <<uptr, known, loose, breach, oom, terminated>>
    /\ UNCHANGED <<shared_vars, log>>

\* new (return$) ::c_uint((self.*GetDayOfWeek$)())
RE_Calendar_GetDayOfWeek(self, return_) ==
    /\ self # NULL /\ PointsTo("Calendar", self) /\ obj[self].st = "live"
    /\ placement_c_uint(return_, Calendar_GetDayOfWeek(obj[self].val))

\* mutant: the month trampoline bound to the year accessor
RE_Calendar_GetMonth_year(self, return_) ==
    /\ self # NULL /\ PointsTo("Calendar", self) /\ obj[self].st = "live"
    /\ placement_c_uint(return_, Calendar_GetYear(obj[self].val))

\* new (return$) ::c_uint((self.*GetMonth$)())
RE_Calendar_GetMonth(self, return_) ==
    /\ self # NULL /\ PointsTo("Calendar", self) /\ obj[self].st = "live"
    /\ placement_c_uint(return_, Calendar_GetMonth(obj[self].val))

\* new (return$) ::c_uint((self.*GetYear$)())
RE_Calendar_GetYear(self, return_) ==
    /\ self # NULL /\ PointsTo("Calendar", self) /\ obj[self].st = "live"
    /\ placement_c_uint(return_, Calendar_GetYear(obj[self].val))

(***************************************************************************)
(* rust::IsRelocatable<T>, evaluated where the bridge is compiled.  A type *)
(* is described by what the predicate can look at: member, what T has      *)
(* under the name IsRelocatable (nothing; something that is no type, such  *)
(* as a static data member; or the type the name stands for, aliases       *)
(* resolved), and the traits of T, of which two are read and two are not.  *)
(***************************************************************************)
\* std::true_type is an alias of std::integral_constant<bool, true>
true_type == "std::integral_constant<bool, true>"
NoMember == "none"
NonTypeMember == "static constexpr bool"
MemberTypes ==
    {true_type, "std::integral_constant<bool, false>", "std::is_void<void>",
     "int", "void"}
Member == {NoMember, NonTypeMember} \cup MemberTypes
TypeDesc ==
    [member : Member,
     trivially_move_constructible : BOOLEAN,
     trivially_destructible : BOOLEAN,
     trivially_copy_constructible : BOOLEAN,
     trivially_move_assignable : BOOLEAN]
\* ::c_uint, unsigned int: a scalar
unsigned_int ==
    [member |-> NoMember,
     trivially_move_constructible |-> TRUE,
     trivially_destructible |-> TRUE,
     trivially_copy_constructible |-> TRUE,
     trivially_move_assignable |-> TRUE]

\* std::is_same<A, B>
is_same(A, B) == A = B

\* detect_IsRelocatable<T> = typename T::IsRelocatable: well-formed when the
\* name is found in T and denotes a type; is_detected<detect_IsRelocatable, T>
is_detected(T) == T.member \in MemberTypes

\* mutant: any member type that derives from std::true_type opts in
get_IsRelocatable_base_of(T) ==
    T.member \in {true_type, "std::is_void<void>"}

\* get_IsRelocatable<T>: std::is_same<typename T::IsRelocatable, std::true_type>
get_IsRelocatable(T) == is_same(T.member, true_type)

\* IsRelocatable<T>: std::conditional<is_detected, get_IsRelocatable<T>,
\* integral_constant<bool, is_trivially_move_constructible<T>::value &&
\* is_trivially_destructible<T>::value>>::type
IsRelocatable(T) ==
    IF is_detected(T) THEN get_IsRelocatable(T)
    ELSE T.trivially_move_constructible /\ T.trivially_destructible

RetValue(T, b) == [kind |-> "value", val |-> T, pos |-> IF b THEN 1 ELSE 0]

\* ::rust::IsRelocatable<T>::value, as a static_assert reads it
IsRelocatable_value(T) ==
    /\ Running
    /\ ret' = RetValue(T, IsRelocatable(T))
    /\ UNCHANGED <<obj, uptr, known, loose, breach, oom, terminated>>
    /\ UNCHANGED <<shared_vars, vector_vars>>

(***************************************************************************)
(* Initial state: nothing allocated but the host's singleton; the caller's *)
(* own tm storage holds no value yet.                                      *)
(***************************************************************************)
Init ==
    /\ obj = [a \in Addr |->
                CASE a = Singleton ->
                        Constructed(operator_new("Calendar"), "Sundas 17 Last Seed 201")
                  [] a \in Stack   -> operator_new("tm")
                  [] a \in Out     -> Uninit_c_uint
                  [] OTHER         -> Unallocated]
    /\ uptr = [h \in USlot |-> Vacant]
    /\ sptr = [s \in SSlot |-> NoHandle]
    /\ wptr = [w \in WSlot |-> NoHandle]
    /\ ctrl = [a \in Heap |-> NoCtrl]
    /\ log = [a \in Heap |-> [pushed |-> <<>>, pure |-> TRUE]]
    /\ trail = NoCall
    /\ known = {}
    /\ loose = {}
    /\ ret = Void
    /\ breach = FALSE
    /\ oom = FALSE
    /\ terminated = FALSE

(***************************************************************************)
(* SpecUnique: every call the unique-handle entry points accept, with any  *)
(* pointer the caller has been given.                                      *)
(***************************************************************************)
NextUnique ==
    \/ \E T \in Types, h \in USlot : unique_ptr_null(T, h)
    \/ \E T \in Types, h \in USlot : unique_ptr_uninit(T, h)
    \/ \E T \in Types, h \in USlot, p \in known \cup {NULL} : unique_ptr_raw(T, h, p)
    \/ \E T \in Types, h \in USlot : unique_ptr_get(T, h)
    \/ \E T \in Types, h \in USlot : unique_ptr_release(T, h)
    \/ \E T \in Types, h \in USlot : unique_ptr_drop(T, h)
    \/ \E p \in known : GetTime(Singleton, p, "noon")

SpecUnique == Init /\ [][NextUnique]_vars

NextShared ==
    \/ \E T \in Types, s \in SSlot : shared_ptr_null(T, s)
    \/ \E T \in Types, s \in SSlot : shared_ptr_uninit(T, s)
    \/ \E T \in Types, self \in SSlot, s \in SSlot : shared_ptr_clone(T, self, s)
    \/ \E T \in Types, self \in SSlot : shared_ptr_get(T, self)
    \/ \E T \in Types, s \in SSlot : shared_ptr_drop(T, s)
    \/ \E T \in Types, w \in WSlot : weak_ptr_null(T, w)
    \/ \E T \in Types, self \in WSlot, w \in WSlot : weak_ptr_clone(T, self, w)
    \/ \E T \in Types, shared \in SSlot, w \in WSlot : weak_ptr_downgrade(T, shared, w)
    \/ \E T \in Types, weak \in WSlot, s \in SSlot : weak_ptr_upgrade(T, weak, s)
    \/ \E T \in Types, w \in WSlot : weak_ptr_drop(T, w)
    \/ \E p \in known : GetTime(Singleton, p, "noon")

SpecShared == Init /\ [][NextShared]_vars

\* observers of a referent: two owners' handles, one weak handle made by
\* downgrade() and one made from it by clone()
NextWeak ==
    \/ \E T \in Types, s \in {"s1", "s2"} : shared_ptr_null(T, s)
    \/ \E T \in Types, s \in {"s1", "s2"} : shared_ptr_uninit(T, s)
    \/ \E T \in Types, self \in {"s1", "s2"}, s \in {"s1", "s2"} :
            shared_ptr_clone(T, self, s)
    \/ \E T \in Types, s \in {"s1", "s2"} : shared_ptr_drop(T, s)
    \/ \E T \in Types : weak_ptr_null(T, "w1")
    \/ \E T \in Types, shared \in {"s1", "s2"} : weak_ptr_downgrade(T, shared, "w1")
    \/ \E T \in Types : weak_ptr_clone(T, "w1", "w2")
    \/ \E T \in Types, weak \in WSlot, s \in {"s1", "s2"} : weak_ptr_upgrade(T, weak, s)
    \/ \E T \in Types, w \in WSlot : weak_ptr_drop(T, w)
    \/ \E p \in known : GetTime(Singleton, p, "noon")

SpecWeak == Init /\ [][NextWeak]_vars

\* two threads on the handles of one referent: a thread that is free
\* starts a call on a handle no call is using, and a call in flight takes
\* its next step
NextThreads ==
    \/ \E T \in Types, s \in SSlot :
            ThreadFree /\ Idle(s) /\ shared_ptr_uninit(T, s)
    \/ \E T \in Types, self \in SSlot, s \in SSlot :
            ThreadFree /\ Idle(s) /\ shared_ptr_clone(T, self, s)
    \/ \E T \in Types, shared \in SSlot :
            ThreadFree /\ weak_ptr_downgrade(T, shared, "w1")
    \/ \E p \in known : ThreadFree /\ GetTime(Singleton, p, "noon")
    \/ \E T \in Types, s \in SSlot : shared_ptr_drop_release(T, s)
    \/ \E T \in Types, s \in SSlot : shared_ptr_drop_dispose(T, s)
    \/ \E T \in Types, s \in SSlot : weak_ptr_upgrade_load(T, "w1", s)
    \/ \E T \in Types, s \in SSlot : weak_ptr_upgrade_cas(T, s)

SpecThreads == Init /\ [][NextThreads]_vars

NextVector ==
    \/ vector_new
    \/ \E v \in known : vector_size(v)
    \/ \E v \in known, pos \in 0 .. MaxLen - 1 : vector_get_unchecked(v, pos)
    \/ \E v \in known, value \in Stack : vector_push_back(v, value)
    \/ \E v \in known, out \in Stack : vector_pop_back(v, out)
    \/ \E p \in Stack, t \in TmVal : GetTime(Singleton, p, t)

SpecVector == Init /\ [][NextVector]_vars

NextLifecycle ==
    \/ RE_Calendar_GetSingleton
    \/ \E T \in Types : autocxx_alloc(T)
    \/ \E T \in Types, p \in known \cup {NULL} : autocxx_free(T, p)
    \/ \E p \in known : Calendar_synthetic_destructor(p)
    \/ \E cal \in known, p \in known : GetTime(cal, p, "noon")
    \/ \E p \in known, other \in known : tm_new_synthetic_move_ctor(p, other)
    \/ \E p \in known, other \in known : tm_new_synthetic_const_copy_ctor(p, other)
    \/ \E T \in Types, h \in USlot, p \in known \cup {NULL} : unique_ptr_raw(T, h, p)
    \/ \E T \in Types, h \in USlot : unique_ptr_get(T, h)
    \/ \E T \in Types, h \in USlot : unique_ptr_release(T, h)
    \/ \E T \in Types, h \in USlot : unique_ptr_drop(T, h)

SpecLifecycle == Init /\ [][NextLifecycle]_vars

\* the entry points that allocate, and what it takes to call them
NextAlloc ==
    \/ RE_Calendar_GetSingleton
    \/ \E T \in Types : unique_ptr_uninit(T, "u1")
    \/ \E T \in Types : shared_ptr_uninit(T, "s1")
    \/ \E T \in Types : autocxx_alloc(T)
    \/ vector_new
    \/ \E v \in known, value \in Stack : vector_push_back(v, value)
    \/ \E cal \in known, p \in Stack : GetTime(cal, p, "noon")
    \/ \E str \in StrVal : autocxx_make_string(str)
    \/ \E cal \in known : GetDayName(cal, "Sundas")
    \/ \E cal \in known : GetMonthName(cal, "Frostfall")

SpecAlloc == Init /\ [][NextAlloc]_vars

\* the Calendar's accessors on the singleton while the host moves it on,
\* and the raw lifecycle calls on whatever the caller has been given
NextCalendar ==
    \/ RE_Calendar_GetSingleton
    \/ \E c \in CalState : Host_Update(c)
    \/ \E str \in StrVal : autocxx_make_string(str)
    \/ \E cal \in known : GetDayName(cal, Calendar_GetDayName(obj[cal].val))
    \/ \E cal \in known : GetMonthName(cal, Calendar_GetMonthName(obj[cal].val))
    \/ \E cal \in known, out \in Out : RE_Calendar_GetDayOfWeek(cal, out)
    \/ \E cal \in known, out \in Out : RE_Calendar_GetMonth(cal, out)
    \/ \E cal \in known, out \in Out : RE_Calendar_GetYear(cal, out)
    \/ \E T \in Types : autocxx_alloc(T)
    \/ \E T \in Types, p \in known \cup {NULL} : autocxx_free(T, p)
    \/ \E p \in known : Calendar_synthetic_destructor(p)

SpecCalendar == Init /\ [][NextCalendar]_vars

\* the predicate on every type description
NextRelocatable == \E T \in TypeDesc : IsRelocatable_value(T)

SpecRelocatable == Init /\ [][NextRelocatable]_vars

(***************************************************************************)
(* Unique handles: the claims.                                             *)
(***************************************************************************)
\* the call destroyed nothing, freed nothing and wrote no object
NoOp == obj' = obj
\* the live handles that hold p
Owners(p) == {h \in USlot : uptr[h].life = "live" /\ uptr[h].ptr = p}
\* the shared handles outstanding on p, and the weak ones
Outstanding(p) == {s \in SSlot : sptr[s].life = "live" /\ sptr[s].ptr = p}
Observers(p) == {w \in WSlot : wptr[w].life = "live" /\ wptr[w].ptr = p}
\* the objects that are, or were, the referent of a shared handle
Referents == {a \in Heap : ctrl[a].st # "none"}

\* C1: over shared clone() and drop() calls, each live handle dropped at most
\* once, a referent is destroyed exactly once: untouched while a shared
\* handle on it is outstanding, destroyed and freed once when none is, and
\* the step that destroys it is the drop() of the one handle that was left.
C1_DestroyedOnceAtZero ==
    /\ [](\A a \in Referents :
            /\ ctrl[a].strong = Cardinality(Outstanding(a))
            /\ Outstanding(a) # {} =>
                    /\ obj[a].st \in {"uninit", "live"}
                    /\ obj[a].dtors = 0 /\ obj[a].frees = 0
            /\ Outstanding(a) = {} =>
                    /\ obj[a].st = "freed"
                    /\ obj[a].dtors = 1 /\ obj[a].frees = 1)
    /\ [][\A a \in Referents :
            obj'[a].dtors # obj[a].dtors =>
                \E T \in Types, s \in SSlot :
                    /\ shared_ptr_drop(T, s)
                    /\ Outstanding(a) = {s}]_vars

\* C1, witness: a referent whose handle was cloned has lost every handle
\* and was destroyed and freed once, its constructor having run before.
C1_Witness ==
    /\ ~breach
    /\ \E a \in Referents :
            /\ ctrl[a].cloned
            /\ Outstanding(a) = {}
            /\ obj[a].dtors = 1 /\ obj[a].frees = 1

\* C2: upgrade() of a weak handle on a referent yields, while a shared
\* handle on the referent is outstanding, a handle on that same referent
\* that is one more outstanding owner, and destroys nothing; once every
\* shared handle on it has been dropped, it yields the null handle.
C2_UpgradeWhileOwnedElseNull ==
    [][\A T \in Types, w \in WSlot, s \in SSlot :
          (weak_ptr_upgrade(T, w, s) /\ wptr[w].ptr # NULL) =>
              LET a == wptr[w].ptr IN
              /\ sptr'[s].life = "live"
              /\ NoOp
              /\ Outstanding(a) # {} =>
                      /\ sptr'[s].ptr = a
                      /\ Outstanding(a)' = Outstanding(a) \cup {s}
                      /\ Cardinality(Outstanding(a)') = Cardinality(Outstanding(a)) + 1
                      /\ ctrl'[a].strong = ctrl[a].strong + 1
                      /\ obj[a].dtors = 0
              /\ Outstanding(a) = {} =>
                      /\ sptr'[s].ptr = NULL
                      /\ Outstanding(a)' = {}
                      /\ ctrl'[a].strong = 0]_vars

\* C2, witness: a weak handle is left on a referent on which one upgrade()
\* found an owner and a later one, every owner gone, found none.
C2_Witness ==
    \E a \in Referents :
        /\ ctrl[a].locked /\ ctrl[a].missed
        /\ Observers(a) # {}
        /\ Outstanding(a) = {}
        /\ obj[a].st = "freed"
        /\ \E s \in SSlot : sptr[s] = Handle(NULL)

\* the step destroys nothing and frees nothing

\* C3, as stated: for every exclusive handle h, a second drop(h) after a
\* drop(h) is a no-op if and only if release() was not called on h between
\* the two drops.
C3_SecondDropNoOpIffNotReleased ==
    [][\A T \in Types, h \in USlot :
          (uptr[h].life = "dead" /\ unique_ptr_drop(T, h))
              => (NoOp <=> ~uptr[h].rel)]_vars

\* C3, amended: a drop(h) is a no-op exactly when the pointer stored in h is
\* null.  It is null whenever release() was called on h since h was last
\* constructed or dropped, so a drop after a release is a no-op, a second
\* drop included; a second drop with no release between is a no-op only if
\* the first drop left a null behind, and runs the destructor of the
\* destroyed object and releases its storage once more if it did not.
C3_DropIsNoOpIffNull ==
    [][\A T \in Types, h \in USlot :
          unique_ptr_drop(T, h) =>
              LET p == uptr[h].ptr IN
              /\ uptr[h].rel => (p = NULL /\ NoOp)
              /\ p = NULL => NoOp
              /\ p # NULL =>
                    /\ obj'[p].dtors = Count(obj[p].dtors)
                    /\ obj'[p].frees = Count(obj[p].frees)
                    /\ obj'[p].st = "freed"
                    /\ \A a \in Addr \ {p} : obj'[a] = obj[a]
              /\ (uptr[h].life = "dead" /\ p # NULL) => obj[p].dtors >= 1]_vars

\* C3, witness: within the preconditions, one handle was released and then
\* dropped, which destroyed nothing, and the other was dropped while it
\* held an object, which was destroyed and freed once.
C3_Witness ==
    /\ ~breach
    /\ \E h \in USlot : uptr[h].found = "released"
    /\ \E h \in USlot : uptr[h].found = "object"
    /\ \E a \in Heap : obj[a].st = "live"
    /\ \E a \in Heap : obj[a].st = "freed" /\ obj[a].dtors = 1 /\ obj[a].frees = 1

\* C4, as stated: in every state the unique-handle operations reach, with
\* get() results and released pointers handed to later raw() calls, each
\* native object is owned by at most one exclusive handle.
C4_AtMostOneOwner == \A p \in Addr : Cardinality(Owners(p)) <= 1

\* C4, amended: each native object is owned by at most one exclusive handle
\* as long as the caller has kept to the preconditions, that is, has handed
\* raw() only pointers it owned itself (what release() returned, not handed
\* to raw() since) and has used no handle after its drop.
C4_AtMostOneOwnerUnderContract == ~breach => C4_AtMostOneOwner

\* C4, witness: an object released by one handle is owned by the other,
\* within the preconditions.
C4_Witness ==
    /\ ~breach
    /\ uptr["u1"].life = "live" /\ uptr["u1"].via = "uninit" /\ uptr["u1"].rel
    /\ uptr["u2"].life = "live" /\ uptr["u2"].via = "raw"
    /\ uptr["u2"].ptr \in Heap
    /\ Owners(uptr["u2"].ptr) = {"u2"}
    /\ Cardinality(Fresh) = MaxObj - 1

\* C5: release() on a handle that owns o returns o, leaves the handle alive
\* and null (get() then returns null) and destroys and frees nothing; a later
\* drop() of that handle is a no-op, and o, now the caller's, stays
\* undestroyed; drop() on a non-null handle destroys its object, once.
C5_ReleaseThenDrop ==
    /\ [][\A T \in Types, h \in USlot :
            /\ (Pre_handle(h) /\ uptr[h].ptr # NULL /\ unique_ptr_release(T, h)) =>
                    /\ ret' = RetPtr(uptr[h].ptr)
                    /\ uptr'[h].life = "live" /\ uptr'[h].ptr = NULL
                    /\ NoOp
            /\ (Pre_handle(h) /\ uptr[h].rel /\ unique_ptr_get(T, h)) =>
                    ret' = RetPtr(NULL)
            /\ (Pre_handle(h) /\ uptr[h].rel /\ unique_ptr_drop(T, h)) => NoOp
            /\ (~breach /\ Pre_drop(h) /\ uptr[h].ptr # NULL
                    /\ unique_ptr_drop(T, h)) =>
                    /\ obj[uptr[h].ptr].dtors = 0
                    /\ obj'[uptr[h].ptr].dtors = 1
                    /\ obj'[uptr[h].ptr].st = "freed"]_vars
    /\ [](~breach => \A p \in loose : obj[p].dtors = 0 /\ obj[p].frees = 0)
    /\ [](~breach => \A a \in Addr : obj[a].dtors <= 1)

\* C5, witness: within the preconditions, the one handle used was released
\* and then dropped, and the object it gave up is live.
C5_Witness ==
    /\ ~breach
    /\ uptr["u1"].life = "dead" /\ uptr["u2"].life = "vacant"
    /\ loose # {}
    /\ \A p \in loose : obj[p].st = "live"

\* C6: uninit() leaves a non-null handle that owns newly allocated storage
\* on which no constructor has run, and returns the pointer get() returns;
\* once the object is constructed, one drop() runs the destructor once and
\* releases the storage once, and nothing destroys or frees it again.
C6_UninitGetDrop ==
    /\ [][\A T \in Types, h \in USlot :
            /\ (Fresh # {} /\ unique_ptr_uninit(T, h)) =>
                    /\ uptr'[h].life = "live"
                    /\ uptr'[h].ptr \in Fresh
                    /\ obj'[uptr'[h].ptr].st = "uninit"
                    /\ obj'[uptr'[h].ptr].type = T
                    /\ ret' = RetPtr(uptr'[h].ptr)
            /\ (Pre_handle(h) /\ unique_ptr_get(T, h)) =>
                    /\ ret' = RetPtr(uptr[h].ptr)
                    /\ UNCHANGED <<obj, uptr>>
            /\ (~breach /\ Pre_drop(h) /\ uptr[h].ptr # NULL
                    /\ unique_ptr_drop(T, h)) =>
                    /\ obj'[uptr[h].ptr].dtors = obj[uptr[h].ptr].dtors + 1
                    /\ obj'[uptr[h].ptr].frees = obj[uptr[h].ptr].frees + 1
                    /\ uptr'[h].life = "dead"]_vars
    /\ [](~breach => \A a \in Heap :
                        /\ obj[a].dtors <= 1 /\ obj[a].frees <= 1
                        /\ obj[a].st = "freed" => obj[a].dtors = 1)

\* C6, witness: within the preconditions, an object made by uninit() and
\* constructed in place was dropped: destroyed once, freed once, and no
\* handle is left.
C6_Witness ==
    /\ ~breach
    /\ \E a \in Heap : obj[a].st = "freed" /\ obj[a].dtors = 1 /\ obj[a].frees = 1
    /\ \A h \in USlot : uptr[h].life # "live"

\* C7: on a vector that has only been pushed on since new(), after N
\* push_back calls size() returns N and get_unchecked(i), 0 <= i < N, refers
\* to the element the (i+1)-th push_back supplied.
C7_SizeAndPushOrder ==
    /\ [](\A v \in Heap : (IsVector(v) /\ log[v].pure) => obj[v].elems = log[v].pushed)
    /\ [][\A v \in Heap :
            /\ (log[v].pure /\ vector_size(v)) => ret' = RetSize(Len(log[v].pushed))
            /\ \A i \in 0 .. MaxLen - 1 :
                    (log[v].pure /\ vector_get_unchecked(v, i)) =>
                        /\ ret' = RetElem(v, i)
                        /\ obj'[ret'.val].elems[ret'.pos + 1] = log[v].pushed[i + 1]]_vars

\* C7, witness: MaxLen pushes of values that differ, then get_unchecked of
\* the last index.
C7_Witness ==
    \E v \in Heap :
        /\ IsVector(v) /\ log[v].pure
        /\ Len(log[v].pushed) = MaxLen
        /\ log[v].pushed[1] # log[v].pushed[2]
        /\ ret = RetElem(v, MaxLen - 1)

\* C8: a pop_back(out) that follows a push_back(v) on the same vector with
\* no call between them leaves the vector with the size it had before the
\* push and, if it had elements, with the last element it had, and
\* constructs in out the value that was pushed.
C8_PushThenPopRestores ==
    [][\A v \in Heap, out \in Stack :
          (trail.op = "push_back" /\ trail.vec = v /\ vector_pop_back(v, out)) =>
              /\ Len(obj'[v].elems) = trail.len
              /\ trail.len > 0 => obj'[v].elems[trail.len] = trail.back
              /\ obj'[out].st = "live"
              /\ obj'[out].val = trail.val]_vars

\* C8, witness: a value was pushed onto a vector whose last element was a
\* different one and popped at once.
C8_Witness ==
    /\ trail.op = "popped"
    /\ trail.len > 0
    /\ trail.back # trail.val
    /\ Back(obj[trail.vec].elems) = trail.back

\* C9, as stated: the singleton is never destroyed, freed or owned by a
\* handle, whatever is called with its pointer.
C9_SingletonNeverEnded ==
    /\ obj[Singleton].st = "live"
    /\ obj[Singleton].dtors = 0 /\ obj[Singleton].frees = 0
    /\ Owners(Singleton) = {} /\ Outstanding(Singleton) = {}

\* C9, amended: GetSingleton returns the singleton's address every time and
\* allocates, destroys and owns nothing; only raw() called with the
\* singleton's pointer makes a handle own it, only free(), the synthetic
\* destructor and the drop() of such a handle, called with it, change it;
\* no shared handle holds it; and while the caller hands raw(), free() and
\* the destructor only pointers it owns, the singleton stays as it is.
C9_SingletonEndsOnlyByMisuse ==
    /\ [][RE_Calendar_GetSingleton =>
            /\ ret' = RetPtr(Singleton)
            /\ UNCHANGED <<obj, uptr, loose, shared_vars>>]_vars
    /\ [][obj'[Singleton] # obj[Singleton] =>
            \/ autocxx_free("Calendar", Singleton)
            \/ Calendar_synthetic_destructor(Singleton)
            \/ \E h \in USlot :
                  uptr[h].ptr = Singleton /\ unique_ptr_drop("Calendar", h)]_vars
    /\ [][\A h \in USlot :
            (uptr'[h].ptr = Singleton /\ uptr[h].ptr # Singleton) =>
                unique_ptr_raw("Calendar", h, Singleton)]_vars
    /\ [](Singleton \notin loose /\ Outstanding(Singleton) = {})
    /\ [](~breach => C9_SingletonNeverEnded)

\* C9, witness: the accessor has just returned the singleton, a Calendar of
\* the caller's own was allocated and freed, and the singleton is as it was.
C9_Witness ==
    /\ ~breach
    /\ ret = RetPtr(Singleton) /\ Singleton \in known
    /\ \E a \in Heap : obj[a].type = "Calendar" /\ obj[a].frees = 1
    /\ C9_SingletonNeverEnded

\* C10: an allocation that fails inside an entry point ends the process: the
\* call returns nothing, leaves no handle and no pointer with the caller,
\* and nothing runs afterwards; an entry point that has to allocate when
\* the heap is exhausted does not return; one that returns has made what
\* it was asked for.
C10_AllocationFailureTerminates ==
    /\ [](oom => terminated)
    /\ [][(oom' /\ ~oom) =>
            /\ terminated'
            /\ UNCHANGED <<uptr, sptr, wptr, ctrl, known, loose, ret>>
            /\ \A a \in Addr : obj'[a] # obj[a] => obj'[a].st = "freed"]_vars
    /\ [][terminated => UNCHANGED vars]_vars
    /\ [][/\ \A T \in Types, h \in USlot :
                unique_ptr_uninit(T, h) =>
                    IF Fresh = {} THEN terminated' /\ oom'
                    ELSE /\ ~terminated' /\ ret'.val \in Fresh
                         /\ uptr'[h] = Holding(ret'.val, "uninit")
                         /\ obj'[ret'.val].st = "uninit"
          /\ \A T \in Types, s \in SSlot :
                shared_ptr_uninit(T, s) =>
                    IF Room = {} THEN terminated' /\ oom'
                    ELSE /\ ~terminated' /\ ret'.val \in Fresh
                         /\ sptr'[s] = Handle(ret'.val)
                         /\ ctrl'[ret'.val].strong = 1
                         /\ obj'[ret'.val].st = "uninit"
          /\ \A T \in Types :
                autocxx_alloc(T) =>
                    IF Fresh = {} THEN terminated' /\ oom'
                    ELSE ~terminated' /\ ret'.val \in Fresh
                         /\ obj'[ret'.val].st = "uninit"
          /\ (vector_new \/ \E str \in StrVal : autocxx_make_string(str)) =>
                    IF Fresh = {} THEN terminated' /\ oom'
                    ELSE ~terminated' /\ ret'.val \in Fresh
                         /\ obj'[ret'.val].st = "live"
          /\ \A v \in Heap, value \in Stack :
                (vector_push_back(v, value) /\ obj[v].elems = <<>> /\ Fresh = {}) =>
                    terminated' /\ oom']_vars

\* C10, witness: the heap ran out inside an entry point after earlier
\* allocations had succeeded, and the process is gone.
C10_Witness ==
    /\ oom /\ terminated
    /\ Fresh = {}
    /\ \E a \in Heap : obj[a].type = "vector" /\ obj[a].elems = <<>>
    /\ ret.kind = "ptr" /\ ret.val \in Heap

(***************************************************************************)
(* The Calendar's trampolines: the claims.                                 *)
(***************************************************************************)
\* the text buffers the string-returning trampolines have made
Buffers == {a \in Heap : obj[a].type = "string"}
\* the texts such a trampoline is asked to return
Texts ==
    StrVal \cup {Calendar_GetDayName(c) : c \in CalState}
           \cup {Calendar_GetMonthName(c) : c \in CalState}

\* C11: a string-returning trampoline (GetDayName, GetMonthName,
\* make_string) that returns hands back a buffer allocated by that call, at
\* an address no buffer in use has, holding the text asked for, owned by
\* the caller alone (no handle of the binding layer stores it); no later
\* call and no change of the Calendar changes, destroys or frees a buffer.
C11_StringBufferIsTheCallers ==
    /\ [][\A text \in Texts :
            (make_unique_string(text) /\ Fresh # {}) =>
                LET b == ret'.val IN
                /\ ret'.kind = "ptr" /\ b \in Fresh /\ b \notin known
                /\ b \notin Buffers /\ b \in Buffers'
                /\ obj'[b].st = "live" /\ obj'[b].val = text
                /\ obj'[b].dtors = 0 /\ obj'[b].frees = 0
                /\ b \in loose'
                /\ \A h \in USlot : uptr'[h].ptr # b
                /\ \A h \in SSlot : sptr'[h].ptr # b
                /\ \A h \in WSlot : wptr'[h].ptr # b]_vars
    /\ [][\A cal \in Addr :
            /\ (GetDayName(cal, Calendar_GetDayName(obj[cal].val)) /\ Fresh # {}) =>
                    obj'[ret'.val].val = Calendar_GetDayName(obj[cal].val)
            /\ (GetMonthName(cal, Calendar_GetMonthName(obj[cal].val)) /\ Fresh # {}) =>
                    obj'[ret'.val].val = Calendar_GetMonthName(obj[cal].val)]_vars
    /\ [][\A a \in Buffers : obj'[a] = obj[a]]_vars
    /\ [](\A a \in Buffers :
            /\ obj[a].st = "live" /\ obj[a].dtors = 0 /\ obj[a].frees = 0
            /\ Owners(a) = {} /\ Outstanding(a) = {} /\ Observers(a) = {}
            /\ ~breach => a \in loose)

\* C11, witness: two buffers hold the names of two different days, both
\* are the caller's, and the Calendar has since moved on to a third day.
C11_Witness ==
    /\ ~breach
    /\ \E a \in Buffers, b \in Buffers, c \in CalState, d \in CalState :
            /\ a # b /\ c # d
            /\ obj[a].val = Calendar_GetDayName(c)
            /\ obj[b].val = Calendar_GetDayName(d)
            /\ obj[Singleton].val \notin {c, d}
            /\ {a, b} \subseteq loose
            /\ obj[a].st = "live" /\ obj[b].st = "live"

\* C12: GetDayOfWeek, GetMonth and GetYear each construct in *return$ the
\* value the Calendar's own operation yields for the state the Calendar is
\* in, whatever the storage held, and change nothing else: not the
\* Calendar, not any other object.
C12_EnumWrittenThroughOut ==
    [][\A self \in Addr, out \in Out :
          /\ RE_Calendar_GetDayOfWeek(self, out) =>
                /\ obj'[out].st = "live"
                /\ obj'[out].val = Calendar_GetDayOfWeek(obj[self].val)
                /\ \A a \in Addr \ {out} : obj'[a] = obj[a]
          /\ RE_Calendar_GetMonth(self, out) =>
                /\ obj'[out].st = "live"
                /\ obj'[out].val = Calendar_GetMonth(obj[self].val)
                /\ \A a \in Addr \ {out} : obj'[a] = obj[a]
          /\ RE_Calendar_GetYear(self, out) =>
                /\ obj'[out].st = "live"
                /\ obj'[out].val = Calendar_GetYear(obj[self].val)
                /\ \A a \in Addr \ {out} : obj'[a] = obj[a]]_vars

\* C12, witness: the output storage holds the month of a date the host has
\* moved the Calendar on to, and the Calendar stands at that date.
C12_Witness ==
    /\ ~breach
    /\ obj[Singleton].val = "Fredas 1 Morning Star 202"
    /\ \E out \in Out :
            /\ obj[out].st = "live"
            /\ obj[out].val = Calendar_GetYear(obj[Singleton].val)
    /\ \E a \in Buffers : obj[a].val = "Last Seed"

(***************************************************************************)
(* The raw lifecycle entry points: the claims.                             *)
(***************************************************************************)
\* every object but p is as it was
OnlyChanged(p) == \A a \in Addr \ {p} : obj'[a] = obj[a]

C14_WeakNeverExtends ==
    /\ [][\A T \in Types, s \in SSlot :
            (shared_ptr_drop(T, s) /\ sptr[s].ptr # NULL
                /\ Outstanding(sptr[s].ptr) = {s}) =>
                    LET a == sptr[s].ptr IN
                    /\ obj'[a].st = "freed"
                    /\ obj'[a].dtors = Count(obj[a].dtors)
                    /\ obj'[a].frees = Count(obj[a].frees)
                    /\ wptr' = wptr]_vars
    /\ [][\A T \in Types, w \in WSlot :
            (\/ weak_ptr_null(T, w)
             \/ weak_ptr_drop(T, w)
             \/ \E self \in WSlot : weak_ptr_clone(T, self, w)
             \/ \E shared \in SSlot : weak_ptr_downgrade(T, shared, w)) =>
                    /\ NoOp
                    /\ sptr' = sptr
                    /\ \A a \in Heap : ctrl'[a].strong = ctrl[a].strong]_vars
    /\ [](\A a \in Referents :
            /\ ctrl[a].weak = Cardinality(Observers(a))
            /\ ctrl[a].strong = Cardinality(Outstanding(a))
            /\ Outstanding(a) = {} => obj[a].st = "freed"
            /\ Outstanding(a) # {} => (obj[a].dtors = 0 /\ obj[a].frees = 0))

\* C14, witness: within the preconditions, a referent whose shared handle
\* was cloned has been destroyed and freed once by the drop of the last
\* shared handle, and the weak handle made by downgrade() and the one
\* made from it by clone() are both still on it.
C14_Witness ==
    /\ ~breach
    /\ \E a \in Referents :
            /\ Observers(a) = {"w1", "w2"}
            /\ ctrl[a].cloned
            /\ Outstanding(a) = {}
            /\ obj[a].st = "freed" /\ obj[a].dtors = 1 /\ obj[a].frees = 1
            /\ ctrl[a].st = "live"

(***************************************************************************)
(* Shared and weak handles used from two threads: the claims.              *)
(***************************************************************************)
\* the handles on a whose drop() has taken its owner off the count and has
\* not yet returned
Departing(a) == {s \in SSlot : sptr[s].life = "releasing" /\ sptr[s].ptr = a}

\* C15: with clone() and drop() calls of two threads interleaved at every
\* access to the counts, the owner count of a referent is the number of
\* shared handles outstanding on it in every state; the referent is
\* untouched while a handle is outstanding, at most one drop() finds itself
\* the last owner, the referent is destroyed and freed by that drop() once
\* no handle is outstanding, and once, and is gone when every drop() has
\* returned.
C15_CountNeverLostAcrossThreads ==
    /\ [](\A a \in Referents :
            /\ ctrl[a].strong = Cardinality(Outstanding(a))
            /\ Outstanding(a) # {} =>
                    /\ obj[a].st \in {"uninit", "live"}
                    /\ obj[a].dtors = 0 /\ obj[a].frees = 0
                    /\ \A s \in Departing(a) : ~sptr[s].last
            /\ Cardinality({s \in Departing(a) : sptr[s].last}) <= 1
            /\ obj[a].dtors <= 1 /\ obj[a].frees <= 1
            /\ (Outstanding(a) = {} /\ Departing(a) = {}) =>
                    /\ obj[a].st = "freed"
                    /\ obj[a].dtors = 1 /\ obj[a].frees = 1)
    /\ [][\A a \in Referents :
            obj'[a].dtors # obj[a].dtors =>
                \E T \in Types, s \in Departing(a) :
                    /\ shared_ptr_drop_dispose(T, s)
                    /\ sptr[s].last
                    /\ Outstanding(a) = {}]_vars

\* C15, witness: within the preconditions, the drops of the two handles of
\* a constructed referent, one of them a clone, are in flight at the same
\* time: both have decremented the count, and the referent is still there.
C15_Witness ==
    /\ ~breach
    /\ \E a \in Referents, s \in SSlot, t \in SSlot :
            /\ ctrl[a].cloned
            /\ sptr[s] = Releasing(a, FALSE)
            /\ sptr[t] = Releasing(a, TRUE)
            /\ obj[a].st = "live"

\* C16: an upgrade() that runs against the drop of the last shared handle
\* ends in one of two ways: it leaves the null handle, no owner is left
\* and the referent has been or is being destroyed by that drop; or it
\* leaves a handle on the referent, which is one more owner of a referent
\* that no destructor has run on.  A shared handle that is not null never
\* refers to a referent that has been destroyed.
C16_UpgradeNeverRevives ==
    /\ [][\A T \in Types, s \in SSlot :
            weak_ptr_upgrade_cas(T, s) =>
                LET a == sptr[s].ptr IN
                /\ NoOp
                /\ \/ /\ sptr'[s] = Handle(NULL)
                      /\ Outstanding(a) = {} /\ ctrl[a].strong = 0
                      /\ ctrl'[a].strong = 0
                      /\ \/ obj[a].st = "freed"
                         \/ \E d \in Departing(a) : sptr[d].last
                   \/ /\ sptr'[s] = Handle(a)
                      /\ Outstanding(a) # {}
                      /\ ctrl'[a].strong = ctrl[a].strong + 1
                      /\ obj[a].st \in {"uninit", "live"} /\ obj[a].dtors = 0
                   \/ /\ sptr'[s] = Locking(a, ctrl[a].strong)
                      /\ sptr[s].seen # ctrl[a].strong
                      /\ ctrl' = ctrl]_vars
    /\ [](\A s \in SSlot :
            (sptr[s].life = "live" /\ sptr[s].ptr # NULL) =>
                /\ obj[sptr[s].ptr].st \in {"uninit", "live"}
                /\ obj[sptr[s].ptr].dtors = 0 /\ obj[sptr[s].ptr].frees = 0)

\* C16, witness: within the preconditions, an upgrade() has loaded a count
\* that was not zero, and the drop of the last shared handle has taken the
\* count to zero since and has not yet destroyed the referent.
C16_Witness ==
    /\ ~breach
    /\ \E a \in Referents, s \in SSlot, d \in SSlot :
            /\ sptr[s].life = "locking" /\ sptr[s].ptr = a /\ sptr[s].seen > 0
            /\ sptr[d] = Releasing(a, TRUE)
            /\ ctrl[a].strong = 0
            /\ obj[a].st = "live"

(***************************************************************************)
(* The vector's elements: the claims.                                      *)
(***************************************************************************)
\* the places a tm of value t is live in: the caller's slots, and the
\* positions of the vectors
InSlots(t) == {p \in Stack : obj[p].st = "live" /\ obj[p].val = t}
InVectors(t) ==
    {e \in Heap \X (1 .. MaxLen + 1) :
        /\ IsVector(e[1])
        /\ e[2] <= Len(obj[e[1]].elems)
        /\ obj[e[1]].elems[e[2]] = t}
Instances(t) == Cardinality(InSlots(t)) + Cardinality(InVectors(t))

\* C17: push_back moves the caller's tm to the end of the sequence and ends
\* the lifetime of the caller's slot, once; pop_back (sequence not empty)
\* moves the last element to the caller's out storage and takes it off the
\* sequence; across both, the number of live instances of each value, in
\* slots and sequences together, stays what it was (but for a live tm
\* that out held and pop_back wrote over), so no element is live in two
\* places; only the constructor call makes an instance; and no slot has
\* its destructor run twice in a lifetime.
C17_ElementLiveInOnePlace ==
    /\ [][\A v \in Heap, value \in Stack :
            (vector_push_back(v, value) /\ ~terminated') =>
                /\ obj'[value].st = "destroyed"
                /\ obj[value].dtors = 0 /\ obj'[value].dtors = 1
                /\ obj'[v].elems = Append(obj[v].elems, obj[value].val)
                /\ \A t \in TmVal : Instances(t)' = Instances(t)]_vars
    /\ [][\A v \in Heap, out \in Stack :
            vector_pop_back(v, out) =>
                /\ obj'[out].st = "live" /\ obj'[out].dtors = 0
                /\ obj'[out].val = obj[v].elems[Len(obj[v].elems)]
                /\ Len(obj'[v].elems) = Len(obj[v].elems) - 1
                /\ \A t \in TmVal :
                        Instances(t)' =
                            IF out \in InSlots(t) THEN Instances(t) - 1
                            ELSE Instances(t)]_vars
    /\ [][\A t \in TmVal :
            Instances(t)' > Instances(t) =>
                \E p \in Stack : GetTime(Singleton, p, t)]_vars
    /\ [](\A p \in Stack : obj[p].dtors <= 1 /\ obj[p].frees = 0)

\* C17, witness: of two values constructed in the caller's two slots, one
\* was pushed and popped back out into a slot and is live there alone, and
\* the other was pushed, is in the sequence alone, and its slot is
\* destroyed.
C17_Witness ==
    \E v \in Heap, p \in Stack, q \in Stack :
        /\ IsVector(v) /\ ~log[v].pure
        /\ obj[p].st = "destroyed" /\ obj[p].dtors = 1
        /\ obj[q].st = "live" /\ obj[q].val = "noon"
        /\ obj[v].elems = <<"dusk">>
        /\ Instances("noon") = 1 /\ Instances("dusk") = 1

\* C18: pop_back(out) on a sequence of n > 0 elements constructs in out the
\* element that was at index n-1, leaves n-1 elements, those at indices
\* 0..n-2, as they were and in their order, and changes no other object;
\* size() returns the number of elements and changes nothing, and
\* get_unchecked(i) changes nothing.
C18_PopBackFrame ==
    /\ [][\A v \in Heap, out \in Stack :
            vector_pop_back(v, out) =>
                LET n == Len(obj[v].elems) IN
                /\ n > 0
                /\ obj'[out].st = "live"
                /\ obj'[out].val = obj[v].elems[n]
                /\ Len(obj'[v].elems) = n - 1
                /\ \A i \in 1 .. n - 1 : obj'[v].elems[i] = obj[v].elems[i]
                /\ \A a \in Addr \ {v, out} : obj'[a] = obj[a]]_vars
    /\ [][\A v \in Heap :
            /\ vector_size(v) =>
                    /\ ret' = RetSize(Len(obj[v].elems))
                    /\ NoOp
            /\ \A i \in 0 .. MaxLen - 1 :
                    vector_get_unchecked(v, i) =>
                        /\ ret' = RetElem(v, i)
                        /\ NoOp]_vars

\* C18, witness: size() has just returned one less than the longest length,
\* on a sequence that something was popped off and whose first two
\* elements differ.
C18_Witness ==
    \E v \in Heap :
        /\ IsVector(v) /\ ~log[v].pure
        /\ Len(obj[v].elems) = MaxLen - 1
        /\ obj[v].elems[1] # obj[v].elems[2]
        /\ ret = RetSize(MaxLen - 1)

(***************************************************************************)
(* IsRelocatable: the claims.                                              *)
(***************************************************************************)
\* the type the last evaluation was of, and what it yielded
Evaluated == ret.kind = "value"
Relocatable == ret.pos = 1
Trivial(T) == T.trivially_move_constructible /\ T.trivially_destructible

=============================================================================
